---- MODULE Spec2Model ----
(***************************************************************************)
(* Model of the Robot class (an R2D2-like figure built on THREE.Object3D). *)
(*                                                                         *)
(* Numbers.  The source computes with JavaScript doubles; the model uses   *)
(* exact fixed-point integers:                                             *)
(*   - robotHeight is a whole number of scene units;                       *)
(*   - derived dimensions (legHeight, bodyHeight, ...) are in 1e-5 units,  *)
(*     so legHeight = robotHeight * 76190 stands for robotHeight * 0.7619; *)
(*   - node positions are in units of 1/80000000 (1.25e-8), in which every *)
(*     position the source computes is a whole number below 2^31: a        *)
(*     dimension times a coefficient c is the dimension times 800 * c, so  *)
(*     0.75 is 600, 0.125 is 100, and a plain dimension is times 800;      *)
(*   - scales and stretch factors are in hundredths (1.2 is 120);          *)
(*   - setter angles are whole degrees, stored rotations are microradians. *)
(***************************************************************************)
EXTENDS Integers, Sequences, FiniteSets, TLC

VARIABLES robot, nodes

vars == <<robot, nodes>>

(***************************************************************************)
(* Program constants                                                       *)
(***************************************************************************)
MAX_ROBOT_ENERGY == 100
MAX_HEAD_ANGLE == 80
MIN_HEAD_ANGLE == -80
MAX_BODY_ANGLE == 30
MIN_BODY_ANGLE == -45
\* 1.2 and 1, in hundredths
MAX_LEG_STRETCH == 120
MIN_LEG_STRETCH == 100
\* robotHeight used when parameters.robotHeight is undefined
DefaultRobotHeight == 21
\* Math.PI in millionths
PiMicro == 3141593
\* the scale (1, 1, 1) of a fresh Object3D, in hundredths
UnitScale == 100

(***************************************************************************)
(* Bounds of the model                                                     *)
(***************************************************************************)
\* addPoints is explored while |currentPoints| stays within MaxPoints
MaxPoints == 3
\* energy operations are explored while |currentEnergy| stays within EnergyCap
EnergyCap == 160

\* the constructor's argument: undefined (new Robot()), or an object whose
\* robotHeight is undefined (<<>>) or the value h (<<h>>)
Parameters ==
    {[defined |-> FALSE, robotHeight |-> <<>>],
     [defined |-> TRUE, robotHeight |-> <<>>],
     [defined |-> TRUE, robotHeight |-> <<10>>]}
\* arguments of setHeadRotation and setBodyRotation, in degrees
HeadInputs == {-99999, -81, -30, 0, 80, 99999}
BodyInputs == {-99999, -45, -10, 31, 99999}
\* arguments of setLegsScale, in hundredths (500 is the factor 5)
LegInputs == {-9999900, 0, 100, 105, 120, 500, 9999900}
\* arguments of substractEnergy and addEnergy
Amounts == {-150, -40, 0, 40, 60, 150}
\* arguments of addPoints
PointAmounts == {-1, 0, 1, 2}
NonNegative(S) == {a \in S : a >= 0}

(***************************************************************************)
(* degToRad: degrees * Math.PI / 180, in microradians, rounded to zero     *)
(***************************************************************************)
degToRad(degrees) ==
    IF degrees >= 0 THEN (degrees * PiMicro) \div 180
    ELSE -(((-degrees) * PiMicro) \div 180)

(***************************************************************************)
(* THREE.Object3D: a node of the scene graph.  A world is a record         *)
(* [robot, nodes]: the Robot object's own fields and the heap of nodes,    *)
(* a node's identity being its index in the heap (0 is null/undefined).    *)
(* Of a node the model keeps its kind, parent, children, position,         *)
(* rotation and scale; geometry, material and shadow settings are left out.*)
(***************************************************************************)
Object3D(type) ==
    [type |-> type, parent |-> 0, children |-> <<>>,
     position |-> [x |-> 0, y |-> 0, z |-> 0],
     rotation |-> [x |-> 0, y |-> 0, z |-> 0],
     scale |-> [x |-> UnitScale, y |-> UnitScale, z |-> UnitScale]]

\* new THREE.Mesh(...) (or any other Object3D): allocates a node
NewNode(w, type) == [w EXCEPT !.nodes = Append(@, Object3D(type))]

\* the node allocated last
Last(w) == Len(w.nodes)

Without(seq, c) == SelectSeq(seq, LAMBDA e : e # c)

\* THREE.Object3D.add: detach the child from its old parent, set its parent,
\* push it onto the new parent's children
Add(w, p, c) ==
    LET old == w.nodes[c].parent
        detached == IF old = 0 THEN w.nodes
                    ELSE [w.nodes EXCEPT ![old].children = Without(@, c)]
    IN [w EXCEPT !.nodes =
            [detached EXCEPT ![c].parent = p,
                             ![p].children = Append(@, c)]]

SetPosition(w, n, axis, v) ==
    [w EXCEPT !.nodes[n].position =
        IF axis = "x" THEN [@ EXCEPT !.x = v]
        ELSE IF axis = "y" THEN [@ EXCEPT !.y = v]
        ELSE [@ EXCEPT !.z = v]]

(***************************************************************************)
(* Sequencing: With(v, F) is F(v) with v evaluated once, as a statement    *)
(* whose result the following statements use.                              *)
(***************************************************************************)
With(v, F(_)) == CHOOSE r \in {F(x) : x \in {v}} : TRUE

(***************************************************************************)
(* Private methods: the part factory.  Each returns the world after the    *)
(* call (w) and the node it returns (ret).                                 *)
(***************************************************************************)
\* createEye
createEye(w) ==
    With(NewNode(w, "eye"), LAMBDA w1 :
    LET eye == Last(w1) IN
    With(SetPosition(w1, eye, "y", (w1.robot.headRadius * 800) \div 2), LAMBDA w2 :
    With(SetPosition(w2, eye, "z", w2.robot.headRadius * 680), LAMBDA w3 :
        [w |-> w3, ret |-> eye])))

\* createHead: head.add(this.createEye()); this.head = head
createHead(w) ==
    With(NewNode(w, "head"), LAMBDA w1 :
    LET head == Last(w1) IN
    With(SetPosition(w1, head, "y", (w1.robot.bodyHeight * 800) \div 2), LAMBDA w2 :
    With(createEye(w2), LAMBDA e :
    With(Add(e.w, head, e.ret), LAMBDA w3 :
        [w |-> [w3 EXCEPT !.robot.head = head], ret |-> head]))))

\* createBody: this.body = body; body.add(this.createHead())
createBody(w) ==
    With(NewNode(w, "body"), LAMBDA w1 :
    LET body == Last(w1)
        bodyRadius == w1.robot.bodyWidth * 400
    IN
    With(SetPosition(w1, body, "x",
            (-bodyRadius) - ((w1.robot.legHeight * 100) \div 2)), LAMBDA w2 :
    With(SetPosition(w2, body, "y",
            (-((w2.robot.bodyHeight * 800) \div 2))
            + ((w2.robot.headRadius * 800) \div 2)
            + (200 * w2.robot.legHeight)), LAMBDA w3 :
    With([w3 EXCEPT !.robot.body = body], LAMBDA w4 :
    With(createHead(w4), LAMBDA h :
    With(Add(h.w, body, h.ret), LAMBDA w5 :
        [w |-> w5, ret |-> body]))))))

\* createFemur: records the femur in leftFemur (side >= 0) or rightFemur
createFemur(w, side) ==
    With(NewNode(w, "femur"), LAMBDA w1 :
    LET femur == Last(w1) IN
        [w |-> IF side >= 0 THEN [w1 EXCEPT !.robot.leftFemur = femur]
               ELSE [w1 EXCEPT !.robot.rightFemur = femur],
         ret |-> femur])

\* createShoulder with the test of the side lost: each shoulder receives a body
createShoulder_BodyOnBothSides(w, side) ==
    With(NewNode(w, "shoulder"), LAMBDA w1 :
    LET shoulder == Last(w1)
        shoulderDimensions == w1.robot.legHeight * 100
    IN
    With(SetPosition(w1, shoulder, "y",
            ((w1.robot.legHeight * 600) \div 2) + (shoulderDimensions \div 2)),
         LAMBDA w2 :
        With(IF side >= 0 THEN [w2 EXCEPT !.robot.leftShoulder = shoulder]
             ELSE [w2 EXCEPT !.robot.rightShoulder = shoulder], LAMBDA w3 :
        With(createBody(w3), LAMBDA b :
            [w |-> Add(b.w, shoulder, b.ret), ret |-> shoulder]))))

\* createShoulder: the left one (side >= 0) also receives the body subtree
createShoulder(w, side) ==
    With(NewNode(w, "shoulder"), LAMBDA w1 :
    LET shoulder == Last(w1)
        shoulderDimensions == w1.robot.legHeight * 100
    IN
    With(SetPosition(w1, shoulder, "y",
            ((w1.robot.legHeight * 600) \div 2) + (shoulderDimensions \div 2)),
         LAMBDA w2 :
        IF side >= 0
        THEN With([w2 EXCEPT !.robot.leftShoulder = shoulder], LAMBDA w3 :
             With(createBody(w3), LAMBDA b :
                 [w |-> Add(b.w, shoulder, b.ret), ret |-> shoulder]))
        ELSE [w |-> [w2 EXCEPT !.robot.rightShoulder = shoulder],
              ret |-> shoulder]))

\* createFoot: foot.add(createFemur(side)); foot.add(createShoulder(side))
createFoot(w, side0) ==
    LET side == IF side0 >= 0 THEN 1 ELSE -1 IN
    With(NewNode(w, "foot"), LAMBDA w1 :
    LET foot == Last(w1) IN
    With(SetPosition(w1, foot, "y", (w1.robot.legHeight * 100) \div 2), LAMBDA w2 :
    With(SetPosition(w2, foot, "x",
            side * (((w2.robot.bodyWidth * 800) \div 2)
                    + ((w2.robot.legHeight * 100) \div 2))), LAMBDA w3 :
    With(createFemur(w3, side), LAMBDA f :
    With(Add(f.w, foot, f.ret), LAMBDA w4 :
    With(createShoulder(w4, side), LAMBDA s :
    With(Add(s.w, foot, s.ret), LAMBDA w5 :
        [w |-> w5, ret |-> foot])))))))

(***************************************************************************)
(* constructor(parameters).  The Robot is itself an Object3D: node 1.      *)
(***************************************************************************)
RobotRoot == 1

\* a literal number of scene units, as a position
Units(n) == n * 80000000

\* position.set(x, y, z)
PositionSet(w, n, x, y, z) ==
    [w EXCEPT !.nodes[n].position = [x |-> x, y |-> y, z |-> z]]

\* THREE.Camera.lookAt(v), for a target that differs from the camera's
\* position along Z only: a camera looks down its negative Z axis, so a
\* target at a greater Z turns it half a turn about Y, which the rotation
\* (Euler angles in the order XYZ) holds as (-pi, 0, -pi); a target at a
\* smaller Z leaves the rotation (0, 0, 0)
LookAt(w, n, v) ==
    LET p == w.nodes[n].position
    IN [w EXCEPT !.nodes[n].rotation =
           IF v.x = p.x /\ v.y = p.y /\ v.z > p.z
           THEN [x |-> -PiMicro, y |-> 0, z |-> -PiMicro]
           ELSE [x |-> 0, y |-> 0, z |-> 0]]

\* reading parameters.robotHeight throws a TypeError when parameters is
\* undefined: no Robot is constructed
ConstructorThrows(parameters) == ~parameters.defined

\* the fields set before the parts are created
RobotFields(parameters) ==
    LET robotHeight == IF parameters.robotHeight = <<>> THEN DefaultRobotHeight
                       ELSE parameters.robotHeight[1]
        bodyHeight == robotHeight * 66670
    IN [robotHeight |-> robotHeight,
        legHeight |-> robotHeight * 76190,
        bodyHeight |-> bodyHeight,
        bodyWidth |-> (bodyHeight * 5) \div 10,
        headRadius |-> robotHeight * 14280,
        currentEnergy |-> MAX_ROBOT_ENERGY,
        currentPoints |-> 0,
        currentRotation |-> 0,
        isDead |-> (MAX_ROBOT_ENERGY < 0),
        rightFoot |-> 0, leftFoot |-> 0,
        rightFemur |-> 0, leftFemur |-> 0,
        rightShoulder |-> 0, leftShoulder |-> 0,
        body |-> 0, head |-> 0,
        headLight |-> 0, target |-> 0, eyeCamera |-> 0]

\* a new Object3D (the light, its target, the camera) recorded in a field
\* of the Robot and placed with position.set(x, y, z)
NewField(w, type, x, y, z) ==
    With(NewNode(w, type), LAMBDA w1 :
    With(IF type = "headLight" THEN [w1 EXCEPT !.robot.headLight = Last(w1)]
         ELSE IF type = "target" THEN [w1 EXCEPT !.robot.target = Last(w1)]
         ELSE [w1 EXCEPT !.robot.eyeCamera = Last(w1)], LAMBDA w2 :
        PositionSet(w2, Last(w2), x, y, z)))

\* for parameters that are defined
constructor(parameters) ==
    With([robot |-> RobotFields(parameters),
          nodes |-> <<Object3D("robot")>>], LAMBDA w0 :
    LET robotHeight == w0.robot.robotHeight IN
    With(createFoot(w0, -1), LAMBDA rf :
    With([rf.w EXCEPT !.robot.rightFoot = rf.ret], LAMBDA w1 :
    With(createFoot(w1, 1), LAMBDA lf :
    With([lf.w EXCEPT !.robot.leftFoot = lf.ret], LAMBDA w2 :
    With(Add(w2, RobotRoot, w2.robot.rightFoot), LAMBDA w3 :
    With(Add(w3, RobotRoot, w3.robot.leftFoot), LAMBDA w4 :
    With(NewField(w4, "headLight", 0, Units(robotHeight + 1), Units(7)),
         LAMBDA w5 :
    With(NewField(w5, "target", 0, 0, Units(25)), LAMBDA w6 :
    With(Add(w6, RobotRoot, w6.robot.headLight), LAMBDA w7 :
    With(Add(w7, RobotRoot, w7.robot.target), LAMBDA w8 :
    With(NewField(w8, "eyeCamera", 0, Units(robotHeight - 1), Units(3)),
         LAMBDA w9 :
    With(LookAt(w9, w9.robot.eyeCamera,
                [x |-> 0, y |-> Units(robotHeight - 1), z |-> Units(10)]),
         LAMBDA w10 :
        Add(w10, RobotRoot, w10.robot.eyeCamera))))))))))))))

(***************************************************************************)
(* Set methods.  Each takes the world and returns the world after the call.*)
(***************************************************************************)
\* setHeadRotation: clamp to [MIN_HEAD_ANGLE, MAX_HEAD_ANGLE], to radians
setHeadRotation(w, headRotation) ==
    IF ~w.robot.isDead
    THEN LET rotation == IF headRotation > MAX_HEAD_ANGLE THEN MAX_HEAD_ANGLE
                         ELSE IF headRotation < MIN_HEAD_ANGLE THEN MIN_HEAD_ANGLE
                         ELSE headRotation
         IN [w EXCEPT !.nodes[w.robot.head].rotation.y = degToRad(rotation)]
    ELSE w

\* setBodyRotation clamping with the head's limits
setBodyRotation_HeadLimits(w, bodyRotation) ==
    IF ~w.robot.isDead
    THEN LET rotation == IF bodyRotation > MAX_HEAD_ANGLE THEN MAX_HEAD_ANGLE
                         ELSE IF bodyRotation < MIN_HEAD_ANGLE THEN MIN_HEAD_ANGLE
                         ELSE bodyRotation
         IN [w EXCEPT !.nodes[w.robot.body].rotation.x = degToRad(rotation)]
    ELSE w

\* setBodyRotation: clamp to [MIN_BODY_ANGLE, MAX_BODY_ANGLE], to radians
setBodyRotation(w, bodyRotation) ==
    IF ~w.robot.isDead
    THEN LET rotation == IF bodyRotation > MAX_BODY_ANGLE THEN MAX_BODY_ANGLE
                         ELSE IF bodyRotation < MIN_BODY_ANGLE THEN MIN_BODY_ANGLE
                         ELSE bodyRotation
         IN [w EXCEPT !.nodes[w.robot.body].rotation.x = degToRad(rotation)]
    ELSE w

\* setLegsScale multiplying the femurs' current scale instead of setting it
setLegsScale_Accumulates(w, extraLength) ==
    IF ~w.robot.isDead
    THEN LET stretch == IF extraLength > MAX_LEG_STRETCH THEN MAX_LEG_STRETCH
                        ELSE IF extraLength < MIN_LEG_STRETCH THEN MIN_LEG_STRETCH
                        ELSE extraLength
             r == w.robot
             femurY == (r.legHeight * 600) \div 2
             shoulderY == ((r.legHeight * 600) \div 100) * stretch
         IN [w EXCEPT !.nodes[r.rightFemur].scale.y = (@ * stretch) \div UnitScale,
                      !.nodes[r.rightFemur].position.y = femurY,
                      !.nodes[r.leftFemur].scale.y = (@ * stretch) \div UnitScale,
                      !.nodes[r.leftFemur].position.y = femurY,
                      !.nodes[r.rightShoulder].position.y = shoulderY,
                      !.nodes[r.leftShoulder].position.y = shoulderY]
    ELSE w

\* setLegsScale placing the femurs at legHeight * 0.75 / 2 times the stretch
setLegsScale_FemurScaledY(w, extraLength) ==
    IF ~w.robot.isDead
    THEN LET stretch == IF extraLength > MAX_LEG_STRETCH THEN MAX_LEG_STRETCH
                        ELSE IF extraLength < MIN_LEG_STRETCH THEN MIN_LEG_STRETCH
                        ELSE extraLength
             r == w.robot
             femurScale == [x |-> UnitScale, y |-> stretch, z |-> UnitScale]
             femurY == (((r.legHeight * 600) \div 2) \div 100) * stretch
             shoulderY == ((r.legHeight * 600) \div 100) * stretch
         IN [w EXCEPT !.nodes[r.rightFemur].scale = femurScale,
                      !.nodes[r.rightFemur].position.y = femurY,
                      !.nodes[r.leftFemur].scale = femurScale,
                      !.nodes[r.leftFemur].position.y = femurY,
                      !.nodes[r.rightShoulder].position.y = shoulderY,
                      !.nodes[r.leftShoulder].position.y = shoulderY]
    ELSE w

\* setLegsScale: clamp to [MIN_LEG_STRETCH, MAX_LEG_STRETCH], scale both
\* femurs along Y, place both femurs and both shoulders
setLegsScale(w, extraLength) ==
    IF ~w.robot.isDead
    THEN LET stretch == IF extraLength > MAX_LEG_STRETCH THEN MAX_LEG_STRETCH
                        ELSE IF extraLength < MIN_LEG_STRETCH THEN MIN_LEG_STRETCH
                        ELSE extraLength
             r == w.robot
             femurScale == [x |-> UnitScale, y |-> stretch, z |-> UnitScale]
             femurY == (r.legHeight * 600) \div 2
             shoulderY == ((r.legHeight * 600) \div 100) * stretch
         IN [w EXCEPT !.nodes[r.rightFemur].scale = femurScale,
                      !.nodes[r.rightFemur].position.y = femurY,
                      !.nodes[r.leftFemur].scale = femurScale,
                      !.nodes[r.leftFemur].position.y = femurY,
                      !.nodes[r.rightShoulder].position.y = shoulderY,
                      !.nodes[r.leftShoulder].position.y = shoulderY]
    ELSE w

\* substractEnergy adding the damage
substractEnergy_Adds(w, damage) ==
    IF ~w.robot.isDead
    THEN LET e == w.robot.currentEnergy + damage
         IN [w EXCEPT !.robot.currentEnergy = e,
                      !.robot.isDead = IF e <= 0 THEN TRUE ELSE @]
    ELSE w

\* substractEnergy testing < 0, as the constructor does, instead of <= 0
substractEnergy_StrictDeath(w, damage) ==
    IF ~w.robot.isDead
    THEN LET e == w.robot.currentEnergy - damage
         IN [w EXCEPT !.robot.currentEnergy = e,
                      !.robot.isDead = IF e < 0 THEN TRUE ELSE @]
    ELSE w

\* substractEnergy: currentEnergy -= damage; dead when it is <= 0
substractEnergy(w, damage) ==
    IF ~w.robot.isDead
    THEN LET e == w.robot.currentEnergy - damage
         IN [w EXCEPT !.robot.currentEnergy = e,
                      !.robot.isDead = IF e <= 0 THEN TRUE ELSE @]
    ELSE w

\* addEnergy without the test of isDead
addEnergy_NoDeadCheck(w, energy) ==
    [w EXCEPT !.robot.currentEnergy =
        IF @ + energy > MAX_ROBOT_ENERGY THEN MAX_ROBOT_ENERGY
        ELSE @ + energy]

\* addEnergy without the cap
addEnergy_NoCap(w, energy) ==
    IF ~w.robot.isDead
    THEN [w EXCEPT !.robot.currentEnergy = @ + energy]
    ELSE w

\* addEnergy with the comparison inverted
addEnergy_InvertedTest(w, energy) ==
    IF ~w.robot.isDead
    THEN [w EXCEPT !.robot.currentEnergy =
             IF @ + energy < MAX_ROBOT_ENERGY THEN MAX_ROBOT_ENERGY
             ELSE @ + energy]
    ELSE w

\* addEnergy: currentEnergy + energy, capped at MAX_ROBOT_ENERGY
addEnergy(w, energy) ==
    IF ~w.robot.isDead
    THEN [w EXCEPT !.robot.currentEnergy =
             IF @ + energy > MAX_ROBOT_ENERGY THEN MAX_ROBOT_ENERGY
             ELSE @ + energy]
    ELSE w

\* addPoints assigning instead of adding
addPoints_Overwrites(w, points) ==
    IF ~w.robot.isDead
    THEN [w EXCEPT !.robot.currentPoints = points]
    ELSE w

\* addPoints: currentPoints += points
addPoints(w, points) ==
    IF ~w.robot.isDead
    THEN [w EXCEPT !.robot.currentPoints = @ + points]
    ELSE w

(***************************************************************************)
(* The state machine: one action per public method                         *)
(***************************************************************************)
W == [robot |-> robot, nodes |-> nodes]

Apply(w) == robot' = w.robot /\ nodes' = w.nodes

\* the explored part of the unbounded counters
InCaps(w) ==
    /\ w.robot.currentEnergy \in (-EnergyCap)..EnergyCap
    /\ w.robot.currentPoints \in (-MaxPoints)..MaxPoints

Init ==
    \E p \in Parameters :
        /\ ~ConstructorThrows(p)
        /\ LET w == constructor(p) IN robot = w.robot /\ nodes = w.nodes

SetHeadRotation == \E x \in HeadInputs : Apply(setHeadRotation(W, x))

SetBodyRotation == \E x \in BodyInputs : Apply(setBodyRotation(W, x))

SetLegsScale == \E x \in LegInputs : Apply(setLegsScale(W, x))

SubstractEnergy(S) ==
    \E d \in S : LET w == substractEnergy(W, d) IN InCaps(w) /\ Apply(w)

AddEnergy(S) ==
    \E e \in S : LET w == addEnergy(W, e) IN InCaps(w) /\ Apply(w)

AddPoints(S) ==
    \E p \in S : LET w == addPoints(W, p) IN InCaps(w) /\ Apply(w)

\* callers pass any number
Next ==
    \/ SetHeadRotation
    \/ SetBodyRotation
    \/ SetLegsScale
    \/ SubstractEnergy(Amounts)
    \/ AddEnergy(Amounts)
    \/ AddPoints(PointAmounts)

Spec == Init /\ [][Next]_vars

\* callers pass only non-negative damage, energy and points
NextNat ==
    \/ SetHeadRotation
    \/ SetBodyRotation
    \/ SetLegsScale
    \/ SubstractEnergy(NonNegative(Amounts))
    \/ AddEnergy(NonNegative(Amounts))
    \/ AddPoints(NonNegative(PointAmounts))

SpecNat == Init /\ [][NextNat]_vars

(***************************************************************************)
(* Vocabulary of the properties                                            *)
(***************************************************************************)
\* the nearest point of [lo, hi]
Clamp(x, lo, hi) == IF x > hi THEN hi ELSE IF x < lo THEN lo ELSE x

HeadNode == nodes[robot.head]
BodyNode == nodes[robot.body]
LeftFemurNode == nodes[robot.leftFemur]
RightFemurNode == nodes[robot.rightFemur]
LeftShoulderNode == nodes[robot.leftShoulder]
RightShoulderNode == nodes[robot.rightShoulder]

\* the world is one a constructor call returns
Fresh == \E p \in Parameters : ~ConstructorThrows(p) /\ W = constructor(p)

\* every call of a public method, with every argument, on the world w
Calls(w) ==
    {setHeadRotation(w, x) : x \in HeadInputs}
    \cup {setBodyRotation(w, x) : x \in BodyInputs}
    \cup {setLegsScale(w, x) : x \in LegInputs}
    \cup {substractEnergy(w, d) : d \in Amounts}
    \cup {addEnergy(w, e) : e \in Amounts}
    \cup {addPoints(w, p) : p \in PointAmounts}

\* the calls that are not addEnergy, damage being any number
CallsButHeal(w, damages) ==
    {setHeadRotation(w, x) : x \in HeadInputs}
    \cup {setBodyRotation(w, x) : x \in BodyInputs}
    \cup {setLegsScale(w, x) : x \in LegInputs}
    \cup {substractEnergy(w, d) : d \in damages}
    \cup {addPoints(w, p) : p \in PointAmounts}

\* the calls that are not addPoints
CallsButPoints(w) ==
    {setHeadRotation(w, x) : x \in HeadInputs}
    \cup {setBodyRotation(w, x) : x \in BodyInputs}
    \cup {setLegsScale(w, x) : x \in LegInputs}
    \cup {substractEnergy(w, d) : d \in Amounts}
    \cup {addEnergy(w, e) : e \in Amounts}

(***************************************************************************)
(* C1: once the robot is dead (substractEnergy brought currentEnergy to    *)
(* <= 0), every call of setHeadRotation, setBodyRotation, setLegsScale,    *)
(* substractEnergy, addEnergy or addPoints, with any argument, leaves the  *)
(* whole state unchanged.                                                  *)
(***************************************************************************)
C1_DeadFigureFrozen == robot.isDead => \A w \in Calls(W) : w = W

\* a robot killed with overshoot, after its head, body and legs were moved
C1_Witness ==
    /\ robot.isDead
    /\ robot.currentEnergy < 0
    /\ robot.currentPoints > 0
    /\ HeadNode.rotation.y # 0
    /\ BodyNode.rotation.x # 0
    /\ LeftFemurNode.scale.y = MAX_LEG_STRETCH

(***************************************************************************)
(* C2: in every reachable state the applied head angle is a number of      *)
(* degrees in [-80, 80], the applied body angle one in [-45, 30], and the  *)
(* femur Y scale is in [1.0, 1.2]; a setter called on a live robot applies *)
(* the nearest bound for an out-of-range input.                            *)
(***************************************************************************)
C2_MotionLimits ==
    /\ \E d \in MIN_HEAD_ANGLE..MAX_HEAD_ANGLE : HeadNode.rotation.y = degToRad(d)
    /\ \E d \in MIN_BODY_ANGLE..MAX_BODY_ANGLE : BodyNode.rotation.x = degToRad(d)
    /\ LeftFemurNode.scale.y \in MIN_LEG_STRETCH..MAX_LEG_STRETCH
    /\ RightFemurNode.scale.y \in MIN_LEG_STRETCH..MAX_LEG_STRETCH
    /\ ~robot.isDead =>
        /\ \A x \in HeadInputs :
              setHeadRotation(W, x).nodes[robot.head].rotation.y
                  = degToRad(Clamp(x, -80, 80))
        /\ \A x \in BodyInputs :
              setBodyRotation(W, x).nodes[robot.body].rotation.x
                  = degToRad(Clamp(x, -45, 30))
        /\ \A x \in LegInputs :
              LET w == setLegsScale(W, x)
              IN /\ w.nodes[robot.leftFemur].scale.y = Clamp(x, 100, 120)
                 /\ w.nodes[robot.rightFemur].scale.y = Clamp(x, 100, 120)

\* a live robot whose three joints sit on a bound
C2_Witness ==
    /\ ~robot.isDead
    /\ HeadNode.rotation.y = degToRad(-80)
    /\ BodyNode.rotation.x = degToRad(30)
    /\ RightFemurNode.scale.y = 120

(***************************************************************************)
(* C3 as claimed: in every reachable state currentEnergy lies in [0, 100]. *)
(***************************************************************************)
C3_EnergyWithinZeroAndMax == robot.currentEnergy \in 0..100

(***************************************************************************)
(* C3 as amended: while callers pass non-negative amounts, currentEnergy   *)
(* never exceeds 100 and is above 0 as long as the robot is alive (the     *)
(* damage that kills it is subtracted in full, so a dead robot's energy    *)
(* may be negative), and it is exactly 100 right after construction.       *)
(***************************************************************************)
C3_EnergyAtMostMax ==
    /\ robot.currentEnergy <= 100
    /\ ~robot.isDead => robot.currentEnergy > 0
    /\ Fresh => robot.currentEnergy = 100

\* the robot hurt, healed back to the maximum and still alive
C3_Witness ==
    /\ ~robot.isDead
    /\ ~Fresh
    /\ robot.currentEnergy = 100
    /\ robot.currentPoints = MaxPoints

(***************************************************************************)
(* C4: on a live robot addEnergy(amount), for any amount, sets             *)
(* currentEnergy to min(currentEnergy + amount, 100) and changes nothing   *)
(* else.                                                                   *)
(***************************************************************************)
C4_HealIsCappedSum ==
    ~robot.isDead =>
        \A a \in Amounts :
            LET sum == robot.currentEnergy + a
                min == IF sum < 100 THEN sum ELSE 100
            IN addEnergy(W, a) = [W EXCEPT !.robot.currentEnergy = min]

\* a hurt live robot that a heal of 60 would take past the maximum
C4_Witness ==
    /\ ~robot.isDead
    /\ robot.currentEnergy \in 41..99
    /\ addEnergy(W, 60).robot.currentEnergy = 100

(***************************************************************************)
(* C5 as claimed: no call other than addEnergy, substractEnergy with any   *)
(* amount included, leaves currentEnergy higher than it was.               *)
(***************************************************************************)
C5_OnlyHealRaisesEnergy ==
    \A w \in CallsButHeal(W, Amounts) :
        w.robot.currentEnergy <= robot.currentEnergy

(***************************************************************************)
(* C5 as amended: no call other than addEnergy leaves currentEnergy higher *)
(* than it was, provided the damage passed to substractEnergy is not       *)
(* negative (a negative damage is subtracted as it is and raises energy).  *)
(***************************************************************************)
C5_OnlyHealRaisesEnergyNat ==
    \A w \in CallsButHeal(W, NonNegative(Amounts)) :
        w.robot.currentEnergy <= robot.currentEnergy

\* a live robot, already hurt, that a damage of 40 hurts further
C5_Witness ==
    /\ ~robot.isDead
    /\ robot.currentEnergy = 60
    /\ substractEnergy(W, 40).robot.currentEnergy = 20

(***************************************************************************)
(* C6 as claimed: currentPoints is never negative and no call, with any    *)
(* argument, decreases it.                                                 *)
(***************************************************************************)
C6_PointsNeverDecrease ==
    /\ robot.currentPoints >= 0
    /\ \A w \in Calls(W) : w.robot.currentPoints >= robot.currentPoints

(***************************************************************************)
(* C6 as amended: while callers pass non-negative points, currentPoints    *)
(* starts at 0, is never negative, is not decreased by any call, and is    *)
(* changed by addPoints on a live robot only: addPoints on a dead robot    *)
(* and every other method, with any argument, leave it as it is.           *)
(***************************************************************************)
C6_PointsAccumulate ==
    /\ Fresh => robot.currentPoints = 0
    /\ robot.currentPoints >= 0
    /\ \A p \in NonNegative(PointAmounts) :
          addPoints(W, p).robot.currentPoints
              = IF robot.isDead THEN robot.currentPoints
                ELSE robot.currentPoints + p
    /\ \A w \in CallsButPoints(W) : w.robot.currentPoints = robot.currentPoints

\* a robot that scored and then died
C6_Witness ==
    /\ robot.isDead
    /\ robot.currentPoints = 2
    /\ addPoints(W, 2).robot.currentPoints = 2

(***************************************************************************)
(* C7: calling setHeadRotation, setBodyRotation or setLegsScale twice in a *)
(* row with the same input gives the same state as calling it once.        *)
(***************************************************************************)
C7_SettersIdempotent ==
    /\ \A x \in HeadInputs :
          setHeadRotation(setHeadRotation(W, x), x) = setHeadRotation(W, x)
    /\ \A x \in BodyInputs :
          setBodyRotation(setBodyRotation(W, x), x) = setBodyRotation(W, x)
    /\ \A x \in LegInputs :
          setLegsScale(setLegsScale(W, x), x) = setLegsScale(W, x)

\* a live robot on which each setter has just been called with a value
\* that moves the joint, so that the second call starts from a moved joint
C7_Witness ==
    /\ ~robot.isDead
    /\ W = setHeadRotation(W, -30)
    /\ W = setBodyRotation(W, -10)
    /\ W = setLegsScale(W, 105)

(***************************************************************************)
(* C8 as claimed: after any calls of substractEnergy, addEnergy and        *)
(* addPoints with any amounts, isDead is true exactly when currentEnergy   *)
(* <= 0.                                                                   *)
(***************************************************************************)
C8_DeadIffNoEnergy ==
    \A w \in Calls(W) : w.robot.isDead <=> w.robot.currentEnergy <= 0

(***************************************************************************)
(* C8 as amended: while callers pass non-negative amounts, isDead is true  *)
(* exactly when currentEnergy <= 0; and, whatever the arguments, once      *)
(* isDead is true no call makes it false again.                            *)
(***************************************************************************)
C8_DeadIffNoEnergyNat ==
    /\ robot.isDead <=> robot.currentEnergy <= 0
    /\ robot.isDead => \A w \in Calls(W) : w.robot.isDead

\* a robot killed by the damage that took its energy to exactly 0
C8_Witness ==
    /\ robot.isDead
    /\ robot.currentEnergy = 0
    /\ addEnergy(W, 60).robot.isDead

(***************************************************************************)
(* C9: setLegsScale(s) on a live robot, with c = s clamped to [1.0, 1.2],  *)
(* leaves both femurs with scale (1, c, 1) and Y position                  *)
(* legHeight * 0.75 / 2, and both shoulders with Y position                *)
(* legHeight * 0.75 * c; in every state the two sides agree.               *)
(* (legHeight is robotHeight * 0.7619; positions are in 1/80000000.)       *)
(***************************************************************************)
C9_LegsScale ==
    /\ LeftFemurNode.scale = RightFemurNode.scale
    /\ LeftFemurNode.position.y = RightFemurNode.position.y
    /\ LeftShoulderNode.position.y = RightShoulderNode.position.y
    /\ ~robot.isDead =>
        \A s \in LegInputs :
            LET w == setLegsScale(W, s)
                c == Clamp(s, 100, 120)
                femurs == {w.nodes[robot.leftFemur], w.nodes[robot.rightFemur]}
                shoulders == {w.nodes[robot.leftShoulder],
                              w.nodes[robot.rightShoulder]}
            IN /\ \A f \in femurs :
                     /\ f.scale = [x |-> 100, y |-> c, z |-> 100]
                     /\ f.position.y = robot.robotHeight * 7619 * 3000
               /\ \A sh \in shoulders :
                     sh.position.y = robot.robotHeight * 7619 * 60 * c
               /\ s = 500 => c = 120

\* a live robot after setLegsScale(5): stretch 1.2, shoulders at
\* legHeight * 0.75 * 1.2
C9_Witness ==
    /\ ~robot.isDead
    /\ W = setLegsScale(W, 500)
    /\ LeftFemurNode.scale.y = 120
    /\ RightShoulderNode.position.y = robot.robotHeight * 7619 * 60 * 120

(***************************************************************************)
(* The part graph                                                          *)
(***************************************************************************)
NodeIds == DOMAIN nodes
OfType(t) == {n \in NodeIds : nodes[n].type = t}
Parts == {n \in NodeIds :
            nodes[n].type \in {"foot", "femur", "shoulder", "body", "head", "eye"}}
ChildSet(p) == {nodes[p].children[i] : i \in DOMAIN nodes[p].children}
Occurrences(p, n) ==
    Cardinality({i \in DOMAIN nodes[p].children : nodes[p].children[i] = n})
\* the nodes that list n among their children
Owners(n) == {p \in NodeIds : n \in ChildSet(p)}

\* the k-th ancestor of n (0 above the root)
RECURSIVE Ancestor(_, _)
Ancestor(n, k) ==
    IF k = 0 \/ n = 0 THEN n ELSE Ancestor(nodes[n].parent, k - 1)

\* n hangs under the Robot by a chain of parents
InTree(n) == \E k \in 1..Len(nodes) : Ancestor(n, k) = RobotRoot

(***************************************************************************)
(* C10: in every reachable state the parts form a tree: 2 feet, 2 femurs,  *)
(* 2 shoulders, one body, one head and one eye, each with exactly one      *)
(* parent and hanging under the Robot; each foot owns one femur and one    *)
(* shoulder; the body -> head -> eye chain hangs under the left shoulder   *)
(* (that of the foot on the positive X side) and the right shoulder has no *)
(* children; the slots leftFemur, rightFemur, leftShoulder, rightShoulder, *)
(* body and head name six distinct nodes of that tree.                     *)
(***************************************************************************)
C10_PartsFormATree ==
    /\ Cardinality(OfType("foot")) = 2
    /\ Cardinality(OfType("femur")) = 2
    /\ Cardinality(OfType("shoulder")) = 2
    /\ Cardinality(OfType("body")) = 1
    /\ Cardinality(OfType("head")) = 1
    /\ Cardinality(OfType("eye")) = 1
    /\ \A n \in Parts :
          /\ nodes[n].parent \in NodeIds
          /\ Owners(n) = {nodes[n].parent}
          /\ Occurrences(nodes[n].parent, n) = 1
          /\ InTree(n)
    /\ \A f \in OfType("foot") :
          /\ nodes[f].parent = RobotRoot
          /\ Len(nodes[f].children) = 2
          /\ \E fm \in OfType("femur"), sh \in OfType("shoulder") :
                ChildSet(f) = {fm, sh}
    /\ OfType("foot") = {robot.leftFoot, robot.rightFoot}
    /\ nodes[robot.leftFoot].position.x > 0
    /\ nodes[robot.rightFoot].position.x < 0
    /\ ChildSet(robot.leftFoot) = {robot.leftFemur, robot.leftShoulder}
    /\ ChildSet(robot.rightFoot) = {robot.rightFemur, robot.rightShoulder}
    /\ nodes[robot.leftShoulder].children = <<robot.body>>
    /\ nodes[robot.rightShoulder].children = <<>>
    /\ nodes[robot.body].children = <<robot.head>>
    /\ \E e \in OfType("eye") :
          /\ nodes[robot.head].children = <<e>>
          /\ nodes[e].children = <<>>
    /\ \A fm \in OfType("femur") : nodes[fm].children = <<>>
    /\ nodes[robot.leftFemur].type = "femur"
    /\ nodes[robot.rightFemur].type = "femur"
    /\ nodes[robot.leftShoulder].type = "shoulder"
    /\ nodes[robot.rightShoulder].type = "shoulder"
    /\ nodes[robot.body].type = "body"
    /\ nodes[robot.head].type = "head"
    /\ Cardinality({robot.leftFemur, robot.rightFemur, robot.leftShoulder,
                    robot.rightShoulder, robot.body, robot.head}) = 6

\* the tree of a robot that was moved, scored and died
C10_Witness ==
    /\ robot.isDead
    /\ robot.currentPoints = 1
    /\ RightFemurNode.scale.y = 105
    /\ BodyNode.parent = robot.leftShoulder
    /\ HeadNode.parent = robot.body
    /\ InTree(robot.head)

====
